---- MODULE Spec2Model ----
(***************************************************************************)
(* Transaction deduplication and double-entry ledger posting of dinero-ai  *)
(* (src/app.py, src/database/connection.py, src/database/models.py).       *)
(*                                                                         *)
(* Text values are sequences of one-character strings, so that lower(),    *)
(* strip() and replace(' ', '') are computed and not assumed.  Amounts are *)
(* integers in hundredths (paise), the precision of NUMERIC(14, 2) and of  *)
(* the "%.2f" rendering.  A calendar date is <<year, month, day>>.         *)
(***************************************************************************)
EXTENDS Integers, Sequences, FiniteSets, TLC

VARIABLES
    db,        \* committed rows of the ledger store
    sess,      \* per upload process: the SQLAlchemy session of save_transactions_to_database
    pc,        \* per upload process: position in main()'s upload cycle
    call,      \* per upload process: arguments, locals and results of the current cycle
    today,     \* datetime.now().date()
    procs,     \* the upload processes that run
    seen,      \* the businesses a ledger was uploaded for
    rowsUsed,  \* number of CSV rows submitted so far (bounded by MaxRows)
    rows,      \* the rows the uploaded CSV files are made of
    sig,       \* two records and what create_transaction_signature made of them
    retry      \* the locals of one call of DineroAgent._call_with_retry

vars == <<db, sess, pc, call, today, procs, seen, rowsUsed, rows, sig, retry>>

\* Total number of CSV rows submitted over one behaviour.
MaxRows == 3

AllProcs == {1, 2}
Businesses == {1, 2}

-----------------------------------------------------------------------------
(* Text *)

Upper == <<"A", "B", "R", "W">>
LowerOf == <<"a", "b", "r", "w">>

\* str.lower() on one character
LowerChar(c) ==
    IF \E i \in DOMAIN Upper : Upper[i] = c
    THEN LowerOf[CHOOSE i \in DOMAIN Upper : Upper[i] = c]
    ELSE c

\* str.lower()
Lower(s) == [i \in DOMAIN s |-> LowerChar(s[i])]

\* the characters str.strip() removes at both ends
IsWhite(c) == c \in {" ", "\t"}

RECURSIVE LStrip(_)
LStrip(s) == IF s # <<>> /\ IsWhite(Head(s)) THEN LStrip(Tail(s)) ELSE s

RECURSIVE RStrip(_)
RStrip(s) ==
    IF s # <<>> /\ IsWhite(s[Len(s)]) THEN RStrip(SubSeq(s, 1, Len(s) - 1)) ELSE s

\* str.strip()
Strip(s) == RStrip(LStrip(s))

NotSpace(c) == c # " "

\* str.replace(' ', '')
RemoveSpaces(s) == SelectSeq(s, NotSpace)

\* a missing cell (NaN) of a DataFrame
NaN == <<"NaN">>

\* pd.notna
notna(v) == v # NaN

\* str() of a cell: NaN prints as "nan"
Str(v) == IF v = NaN THEN <<"n", "a", "n">> ELSE v

Income == <<"i", "n", "c", "o", "m", "e">>
Expense == <<"e", "x", "p", "e", "n", "s", "e">>
Refund == <<"r", "e", "f", "u", "n", "d">>
EmptyStr == <<>>

-----------------------------------------------------------------------------
(* Dates *)

\* one month back that keeps the year at January
MonthBack_SameYear(d) ==
    IF d[2] = 1 THEN <<d[1], 12, 1>> ELSE <<d[1], d[2] - 1, 1>>

\* date.replace(day=1) followed by one month back, year decremented at January
MonthBack(d) ==
    IF d[2] = 1 THEN <<d[1] - 1, 12, 1>> ELSE <<d[1], d[2] - 1, 1>>

RECURSIVE WalkBack(_, _)
WalkBack(d, n) == IF n = 0 THEN d ELSE WalkBack(MonthBack(d), n - 1)

\* six_months_ago of filter_duplicate_transactions
SixMonthsAgo(now) == WalkBack(<<now[1], now[2], 1>>, 6)

\* d1 >= d2 on dates
DateGE(d1, d2) ==
    \/ d1[1] > d2[1]
    \/ d1[1] = d2[1] /\ d1[2] > d2[2]
    \/ d1[1] = d2[1] /\ d1[2] = d2[2] /\ d1[3] >= d2[3]

\* The text of a date cell: <<0, y, m, d>> is "YYYY-MM-DD"; <<1, d, m, y>> is
\* "DD/MM/YYYY".  str(row['date'])[:10] of a cell
DateText(cell) ==
    IF cell.fmt = "iso" THEN <<0, cell.y, cell.m, cell.d>>
    ELSE <<1, cell.d, cell.m, cell.y>>

\* pd.to_datetime(row['date']).date()
ToDate(cell) == <<cell.y, cell.m, cell.d>>

\* str(entry.entry_date)
IsoText(d) == <<0, d[1], d[2], d[3]>>

-----------------------------------------------------------------------------
(* CSV rows *)

\* a numeric amount cell, in hundredths
Num(v) == [t |-> "num", v |-> v]

\* an amount cell holding text that is no number
NotANumber == [t |-> "str", v |-> 0]

\* an empty amount cell
NoAmount == [t |-> "nan", v |-> 0]

\* a numeric amount cell holding an int (1000 and not 1000.00), in hundredths
Whole(v) == [t |-> "int", v |-> v]

Iso(y, m, d) == [fmt |-> "iso", y |-> y, m |-> m, d |-> d]

Row(date, client, description, amount, type) ==
    [date |-> date, client |-> client, description |-> description,
     amount |-> amount, type |-> type]

Recent == Iso(2026, 1, 15)
Old == Iso(2025, 8, 20)
Al == <<"A", "l">>
Bo == <<"B", "o">>
Web == <<"W", "e", "b">>
Rent == <<"R", "e", "n", "t">>

\* The rows an upload draws from: an income and an expense row, a row dated
\* before the lookback window, a zero, a negative and a non-numeric amount,
\* and a type that is neither income nor expense.
Rows ==
    { Row(Recent, Al, Web, Num(1500), Income),
      Row(Recent, Bo, Rent, Num(800), Expense),
      Row(Old, Al, Web, Num(1500), Income),
      Row(Recent, Al, Web, Num(0), Income),
      Row(Recent, Bo, Rent, Num(-500), Expense),
      Row(Recent, Al, Web, NotANumber, Income),
      Row(Recent, Bo, Rent, Num(200), Refund) }

RECURSIVE SeqsUpTo(_, _)
SeqsUpTo(S, n) ==
    IF n = 0 THEN {<<>>}
    ELSE LET shorter == SeqsUpTo(S, n - 1)
         IN  shorter \cup {Append(q, x) : q \in shorter, x \in S}

\* validate_data_types: type in VALID_TYPES, amount numeric and not negative
VALID_TYPES == {Income, Expense}

validate_data_types(row) ==
    /\ row.type \in VALID_TYPES
    /\ row.amount.t # "str"
    /\ row.amount.v >= 0

-----------------------------------------------------------------------------
(* Signature engine *)

\* hashlib.md5(...).hexdigest(): the digest stands for the text it is taken of
md5(data) == data

\* float(row['amount']) raises ValueError on text that is no number
FloatRaises(amount) == amount.t = "str"

\* f"{float(amount):.2f}", in hundredths
Fmt2(v) == v

\* text.lower().strip().replace(' ', '')
Normalize(text) == RemoveSpaces(Strip(Lower(text)))

SignatureRaises(row) == FloatRaises(row.amount)

\* create_transaction_signature with the type left out of signature_data
create_transaction_signature_NoType(row) ==
    LET date_str == DateText(row.date)
        client_normalized ==
            IF notna(row.client) THEN Normalize(Str(row.client)) ELSE EmptyStr
        description_normalized ==
            IF notna(row.description) THEN Normalize(Str(row.description)) ELSE EmptyStr
        amount_normalized ==
            IF row.amount.t # "nan" THEN Fmt2(row.amount.v) ELSE 0
    IN  md5(<<date_str, client_normalized, description_normalized, amount_normalized>>)

create_transaction_signature(row) ==
    LET date_str == DateText(row.date)
        client_normalized ==
            IF notna(row.client) THEN Normalize(Str(row.client)) ELSE EmptyStr
        description_normalized ==
            IF notna(row.description) THEN Normalize(Str(row.description)) ELSE EmptyStr
        amount_normalized ==
            IF row.amount.t # "nan" THEN Fmt2(row.amount.v) ELSE 0
        type_normalized ==
            IF notna(row.type) THEN Strip(Lower(Str(row.type))) ELSE EmptyStr
    IN  md5(<<date_str, client_normalized, description_normalized,
              amount_normalized, type_normalized>>)

-----------------------------------------------------------------------------
(* Ledger store *)

EmptyStore == [accounts |-> {}, clients |-> {}, entries |-> {}, lines |-> {}]

Merge(s, t) ==
    [accounts |-> s.accounts \cup t.accounts,
     clients |-> s.clients \cup t.clients,
     entries |-> s.entries \cup t.entries,
     lines |-> s.lines \cup t.lines]

AllIds(s) ==
    {r.id : r \in s.accounts} \cup {r.id : r \in s.clients}
        \cup {r.id : r \in s.entries}

SetMax(S) == IF S = {} THEN 0 ELSE CHOOSE x \in S : \A y \in S : y <= x

\* JournalEntryLine.__table_args__: check_debit_or_credit and check_non_negative
check_debit_or_credit(l) ==
    \/ l.debit_amount = 0 /\ l.credit_amount > 0
    \/ l.credit_amount = 0 /\ l.debit_amount > 0
    \/ l.debit_amount = 0 /\ l.credit_amount = 0

check_non_negative(l) == l.debit_amount >= 0 /\ l.credit_amount >= 0

\* a store without check constraints on its lines
LineAccepted_Unchecked(l) == TRUE

LineAccepted(l) == check_debit_or_credit(l) /\ check_non_negative(l)

\* get_or_create_default_accounts.default_accounts
default_accounts ==
    << [code |-> "1000", name |-> "Bank Account", type |-> "ASSET"],
       [code |-> "4000", name |-> "Revenue", type |-> "INCOME"],
       [code |-> "5000", name |-> "Expenses", type |-> "EXPENSE"],
       [code |-> "1200", name |-> "Accounts Receivable", type |-> "ASSET"] >>

-----------------------------------------------------------------------------
(* Duplicate filter *)

LinesOf(store, entry) == {l \in store.lines : l.journal_entry_id = entry.id}

\* entry.lines: the relationship states no order; the lines are visited by
\* ascending or by descending line number
RECURSIVE OrderedLines(_, _)
OrderedLines(ls, asc) ==
    IF ls = {} THEN <<>>
    ELSE LET first == CHOOSE l \in ls : \A k \in ls :
                          IF asc THEN l.line_number <= k.line_number
                          ELSE l.line_number >= k.line_number
         IN  <<first>> \o OrderedLines(ls \ {first}, asc)

AccountOf(store, line) == CHOOSE a \in store.accounts : a.id = line.account_id

ClientOf(store, line) == CHOOSE c \in store.clients : c.id = line.client_id

\* one pass of "for line in entry.lines" of filter_duplicate_transactions
ScanLine(store, acc, line) ==
    LET client_name == ClientOf(store, line).client_name
        account_type == AccountOf(store, line).account_type
    IN  IF line.debit_amount > 0
        THEN [client_name |-> client_name, amount |-> line.debit_amount,
              transaction_type |-> IF account_type = "ASSET" THEN Income ELSE Expense]
        ELSE IF line.credit_amount > 0
        THEN [client_name |-> client_name, amount |-> line.credit_amount,
              transaction_type |-> IF account_type = "INCOME" THEN Income ELSE Expense]
        ELSE [acc EXCEPT !.client_name = client_name]

RECURSIVE ScanLines(_, _, _)
ScanLines(store, acc, lines) ==
    IF lines = <<>> THEN acc
    ELSE ScanLines(store, ScanLine(store, acc, Head(lines)), Tail(lines))

\* the signature filter_duplicate_transactions rebuilds from a stored entry
ReconstructedSignature(store, entry, asc) ==
    LET acc == ScanLines(store,
                         [client_name |-> EmptyStr, amount |-> 0,
                          transaction_type |-> Expense],
                         OrderedLines(LinesOf(store, entry), asc))
        client_normalized == Normalize(acc.client_name)
        description_normalized == Normalize(entry.description)
        amount_normalized == Fmt2(acc.amount)
        type_normalized == Strip(Lower(acc.transaction_type))
    IN  md5(<<IsoText(entry.entry_date), client_normalized, description_normalized,
              amount_normalized, type_normalized>>)

\* existing_entries without the filter on business_id
existing_entries_AnyBusiness(store, business_id, now) ==
    {e \in store.entries : DateGE(e.entry_date, SixMonthsAgo(now))}

\* session.query(JournalEntry).filter(business_id == ..., entry_date >= six_months_ago)
existing_entries(store, business_id, now) ==
    {e \in store.entries :
        /\ e.business_id = business_id
        /\ DateGE(e.entry_date, SixMonthsAgo(now))}

existing_signatures(store, business_id, now, asc) ==
    {ReconstructedSignature(store, e, asc) : e \in existing_entries(store, business_id, now)}

\* new_transactions_df[(~)new_transactions_df['signature'].isin(existing_signatures)]:
\* the rows whose signature is (dup) or is not (~dup) among signatures, in order
RECURSIVE Keep(_, _, _)
\* Keep that returns the kept rows last row first
Keep_Reversed(signatures, df, dup) ==
    IF df = <<>> THEN <<>>
    ELSE LET rest == Keep(signatures, Tail(df), dup)
         IN  IF (create_transaction_signature(Head(df)) \in signatures) = dup
             THEN rest \o <<Head(df)>>
             ELSE rest

Keep(signatures, df, dup) ==
    IF df = <<>> THEN <<>>
    ELSE LET rest == Keep(signatures, Tail(df), dup)
         IN  IF (create_transaction_signature(Head(df)) \in signatures) = dup
             THEN <<Head(df)>> \o rest
             ELSE rest

\* FailOpen returning no row at all
FailOpen_Empty(df) == [new |-> <<>>, dups |-> 0, failed |-> TRUE]

\* What the "except Exception" branch of filter_duplicate_transactions returns.
FailOpen(df) == [new |-> df, dups |-> 0, failed |-> TRUE]

\* filter_duplicate_transactions(df, business_id), as (new_only, len(duplicates)).
\* fail is where the store raises ("none": nowhere); a row whose signature
\* cannot be computed raises as well.
filter_duplicate_transactions(store, business_id, df, now, asc, fail) ==
    IF fail # "none" \/ \E i \in DOMAIN df : SignatureRaises(df[i])
    THEN FailOpen(df)
    ELSE LET signatures == existing_signatures(store, business_id, now, asc)
         IN  [new |-> Keep(signatures, df, FALSE),
              dups |-> Len(Keep(signatures, df, TRUE)),
              failed |-> FALSE]

-----------------------------------------------------------------------------
(* Session: sessionmaker(autocommit=False, autoflush=False) *)

\* state: "closed", "active", or "failed" (a flush raised: every later use of
\* the session raises until rollback).  tx holds the rows flushed and not yet
\* committed; pending the objects added and not yet flushed.
ClosedSession == [state |-> "closed", tx |-> EmptyStore, pending |-> {}]

\* the rows a query of the session sees
View(store, s) == Merge(store, s.tx)

\* session.flush() after adding the rows of more: every object added so far is
\* written; a rejected row raises and rolls the transaction back
Flush(s, more) ==
    IF \A l \in s.pending : LineAccepted(l)
    THEN [state |-> "active",
          tx |-> [Merge(s.tx, more) EXCEPT !.lines = @ \cup s.pending],
          pending |-> {}]
    ELSE [state |-> "failed", tx |-> EmptyStore, pending |-> {}]

\* get_or_create_default_accounts, from position i of default_accounts on:
\* <<accounts flushed so far, accounts by name>>
\* fresh is an unused id
RECURSIVE ProvisionFrom(_, _, _, _, _, _)
ProvisionFrom(view, business_id, i, created, byName, fresh) ==
    IF i > Len(default_accounts) THEN [created |-> created, accounts |-> byName]
    ELSE LET d == default_accounts[i]
             found == {a \in view.accounts \cup created :
                          a.business_id = business_id /\ a.account_code = d.code}
             account ==
                 IF found # {} THEN CHOOSE a \in found : TRUE
                 ELSE [id |-> fresh,
                       business_id |-> business_id,
                       account_code |-> d.code,
                       account_name |-> d.name,
                       account_type |-> d.type,
                       is_system_account |-> TRUE]
         IN  ProvisionFrom(view, business_id, i + 1, created \cup ({account} \ found),
                           byName @@ (d.name :> account.id),
                           IF found # {} THEN fresh ELSE fresh + 1)

\* get_or_create_default_accounts whose queries find no account
get_or_create_default_accounts_NoLookup(view, business_id, fresh) ==
    ProvisionFrom(EmptyStore, business_id, 1, {}, <<>>, fresh)

get_or_create_default_accounts(view, business_id, fresh) ==
    ProvisionFrom(view, business_id, 1, {}, <<>>, fresh)

\* session.query(Client).filter_by(business_id, client_name, is_active=True)
MatchingClients(view, business_id, client_name) ==
    {c \in view.clients :
        c.business_id = business_id /\ c.client_name = client_name /\ c.is_active}

\* Decimal(str(row['amount'])) raises InvalidOperation on text that is no number
DecimalRaises(amount) == amount.t = "str"

\* PostingLines with the credit of line 2 of an expense left at Decimal('0.00')
PostingLines_Unbalanced(journal_entry_id, accounts, client_id, row) ==
    LET amount == row.amount.v
        transaction_type == Lower(Str(row.type))
        Line(n, account, debit, credit) ==
            [journal_entry_id |-> journal_entry_id,
             account_id |-> accounts[account],
             client_id |-> client_id,
             line_number |-> n,
             debit_amount |-> debit,
             credit_amount |-> credit,
             description |-> Str(row.description),
             gst_category |-> EmptyStr]
    IN  IF transaction_type = Income
        THEN {Line(1, "Bank Account", amount, 0), Line(2, "Revenue", 0, amount)}
        ELSE {Line(1, "Expenses", amount, 0), Line(2, "Bank Account", 0, 0)}

\* PostingLines with an expense credited to Revenue instead of the Bank account
PostingLines_WrongAccount(journal_entry_id, accounts, client_id, row) ==
    LET amount == row.amount.v
        transaction_type == Lower(Str(row.type))
        Line(n, account, debit, credit) ==
            [journal_entry_id |-> journal_entry_id,
             account_id |-> accounts[account],
             client_id |-> client_id,
             line_number |-> n,
             debit_amount |-> debit,
             credit_amount |-> credit,
             description |-> Str(row.description),
             gst_category |-> EmptyStr]
    IN  IF transaction_type = Income
        THEN {Line(1, "Bank Account", amount, 0), Line(2, "Revenue", 0, amount)}
        ELSE {Line(1, "Expenses", amount, 0), Line(2, "Revenue", 0, amount)}

\* the two JournalEntryLine objects save_transactions_to_database builds
PostingLines(journal_entry_id, accounts, client_id, row) ==
    LET amount == row.amount.v
        transaction_type == Lower(Str(row.type))
        Line(n, account, debit, credit) ==
            [journal_entry_id |-> journal_entry_id,
             account_id |-> accounts[account],
             client_id |-> client_id,
             line_number |-> n,
             debit_amount |-> debit,
             credit_amount |-> credit,
             description |-> Str(row.description),
             gst_category |-> EmptyStr]
    IN  IF transaction_type = Income
        THEN {Line(1, "Bank Account", amount, 0), Line(2, "Revenue", 0, amount)}
        ELSE {Line(1, "Expenses", amount, 0), Line(2, "Bank Account", 0, amount)}

\* One pass of the loop body of save_transactions_to_database on a session
\* whose state is "active".  found is the Client row first() returned, or
\* {} when there is none; fresh is an unused id.  The result is the session
\* afterwards and whether saved_count was incremented.
SaveRow(s, business_id, accounts, row, idx, found, fresh) ==
    LET client ==
            IF found # {} THEN CHOOSE c \in found : TRUE
            ELSE [id |-> fresh, business_id |-> business_id,
                  client_name |-> Str(row.client), is_active |-> TRUE]
        s1 == IF found # {} THEN s
              ELSE Flush(s, [EmptyStore EXCEPT !.clients = {client}])
        journal_entry ==
            [id |-> fresh + 1,
             business_id |-> business_id,
             entry_date |-> ToDate(row.date),
             description |-> Str(row.description),
             is_posted |-> TRUE,
             src |-> [idx |-> idx, row |-> row]]
        s2 == Flush(s1, [EmptyStore EXCEPT !.entries = {journal_entry}])
    IN  IF s1.state = "failed" THEN [sess |-> s1, counted |-> FALSE]
        ELSE IF s2.state = "failed" THEN [sess |-> s2, counted |-> FALSE]
        ELSE IF DecimalRaises(row.amount) THEN [sess |-> s2, counted |-> FALSE]
        ELSE [sess |-> [s2 EXCEPT !.pending =
                            PostingLines(journal_entry.id, accounts, client.id, row)],
              counted |-> TRUE]

\* Commit that leaves in the store the rows of the transaction alone
Commit_Replace(store, s) ==
    LET f == Flush(s, EmptyStore)
    IN  IF s.state = "active" /\ f.state = "active"
        THEN [store |-> f.tx, ok |-> TRUE]
        ELSE [store |-> store, ok |-> FALSE]

\* session_scope on leaving the block: commit, or rollback when commit raises
Commit(store, s) ==
    LET f == Flush(s, EmptyStore)
    IN  IF s.state = "active" /\ f.state = "active"
        THEN [store |-> Merge(store, f.tx), ok |-> TRUE]
        ELSE [store |-> store, ok |-> FALSE]

-----------------------------------------------------------------------------
(* The upload cycle *)

\* where the store can raise inside filter_duplicate_transactions: creating the
\* session, the journal-entry query, loading an entry's lines
FilterFailures == {"none", "session", "query", "lines"}

NoCall ==
    [business_id |-> 0, df |-> <<>>, new |-> <<>>, dups |-> 0, failed |-> FALSE,
     accounts |-> <<>>, idx |-> 1, saved_count |-> 0,
     counted |-> <<>>, committed |-> FALSE, posted |-> {}]

\* an id no row of the store or of an open transaction carries (uuid.uuid4())
FreshId == SetMax(AllIds(db) \cup UNION {AllIds(sess[q].tx) : q \in AllProcs}) + 1

\* The businesses an upload can be for.  Businesses differ in nothing but
\* their id, so they are numbered in the order of their first upload.
Uploaders == {b \in Businesses : \A a \in Businesses : a < b => a \in seen}

Init ==
    /\ db = EmptyStore
    /\ sess = [p \in AllProcs |-> ClosedSession]
    /\ pc = [p \in AllProcs |-> "idle"]
    /\ call = [p \in AllProcs |-> NoCall]
    /\ today = <<2026, 3, 10>>
    /\ procs = {1}
    /\ seen = {}
    /\ rowsUsed = 0
    /\ rows = Rows
    /\ sig = <<>>
    /\ retry = <<>>

\* main(): a ledger of rows arrives and filter_duplicate_transactions is called
Upload(p) ==
    /\ pc[p] = "idle"
    /\ \E business_id \in Uploaders, df \in SeqsUpTo(rows, MaxRows - rowsUsed) \ {<<>>},
          fail \in FilterFailures :
          \E asc \in IF fail = "none" THEN BOOLEAN ELSE {TRUE} :
          LET r == filter_duplicate_transactions(db, business_id, df, today, asc, fail)
          IN  /\ call' = [call EXCEPT ![p] =
                     [NoCall EXCEPT !.business_id = business_id,
                                    !.df = df,
                                    !.new = r.new,
                                    !.dups = r.dups,
                                    !.failed = r.failed]]
              /\ pc' = [pc EXCEPT ![p] = IF Len(r.new) > 0 THEN "save" ELSE "done"]
              /\ seen' = seen \cup {business_id}
              /\ rowsUsed' = rowsUsed + Len(df)
    /\ UNCHANGED <<db, sess, today, procs, rows, sig, retry>>

\* the accounts of business_id that sessions other than that of p have
\* inserted and not yet committed
UncommittedAccounts(p, business_id) ==
    UNION {{a \in sess[q].tx.accounts : a.business_id = business_id} :
              q \in AllProcs \ {p}}

\* save_transactions_to_database up to the loop: the session is opened and the
\* default accounts are provisioned.  An INSERT of a (business_id, account_code)
\* that another open transaction has inserted waits for that transaction to end
\* (uq_business_account_code).
SaveBegin(p) ==
    /\ pc[p] = "save"
    /\ LET r == get_or_create_default_accounts(View(db, ClosedSession),
                                               call[p].business_id, FreshId)
           waits == \E a \in r.created :
                       \E u \in UncommittedAccounts(p, call[p].business_id) :
                           u.account_code = a.account_code
       IN  /\ sess' = [sess EXCEPT ![p] =
                  [state |-> "active",
                   tx |-> IF waits THEN EmptyStore
                          ELSE [EmptyStore EXCEPT !.accounts = r.created],
                   pending |-> {}]]
           /\ call' = [call EXCEPT ![p].accounts = IF waits THEN <<>> ELSE r.accounts]
           /\ pc' = [pc EXCEPT ![p] = IF waits THEN "wait" ELSE "rows"]
    /\ UNCHANGED <<db, today, procs, seen, rowsUsed, rows, sig, retry>>

\* one pass of "for _, row in transactions_df.iterrows()"
SaveRecord(p) ==
    /\ pc[p] = "rows"
    /\ LET c == call[p]
           row == c.new[c.idx]
           matches == MatchingClients(View(db, sess[p]), c.business_id, Str(row.client))
       IN  \E found \in IF matches = {} THEN {{}} ELSE {{m} : m \in matches} :
              LET r == IF sess[p].state = "failed"
                       THEN [sess |-> sess[p], counted |-> FALSE]
                       ELSE SaveRow(sess[p], c.business_id, c.accounts, row, c.idx,
                                    found, FreshId)
              IN  /\ sess' = [sess EXCEPT ![p] = r.sess]
                  /\ call' = [call EXCEPT
                         ![p].idx = @ + 1,
                         ![p].saved_count = IF r.counted THEN @ + 1 ELSE @,
                         ![p].counted = Append(@, r.counted)]
                  /\ pc' = [pc EXCEPT ![p] =
                         IF c.idx = Len(c.new) THEN "commit" ELSE "rows"]
    /\ UNCHANGED <<db, today, procs, seen, rowsUsed, rows, sig, retry>>

\* the block of db_session() is left: commit or rollback, close, return saved_count
SaveCommit(p) ==
    /\ pc[p] = "commit"
    /\ LET r == Commit(db, sess[p])
       IN  /\ db' = r.store
           /\ call' = [call EXCEPT
                  ![p].committed = r.ok,
                  ![p].posted = IF r.ok THEN {e.id : e \in sess[p].tx.entries} ELSE {}]
    /\ sess' = [sess EXCEPT ![p] = ClosedSession]
    /\ pc' = [pc EXCEPT ![p] = "done"]
    /\ UNCHANGED <<today, procs, seen, rowsUsed, rows, sig, retry>>

\* main() has shown the counts of the cycle; the next ledger can be uploaded
Return(p) ==
    /\ pc[p] = "done"
    /\ pc' = [pc EXCEPT ![p] = "idle"]
    /\ call' = [call EXCEPT ![p] = NoCall]
    /\ UNCHANGED <<db, sess, today, procs, seen, rowsUsed, rows, sig, retry>>

Next ==
    \E p \in procs :
        \/ Upload(p)
        \/ SaveBegin(p)
        \/ SaveRecord(p)
        \/ SaveCommit(p)
        \/ Return(p)

Spec == Init /\ [][Next]_vars

-----------------------------------------------------------------------------
(* Uploads of client names that differ in letter case only *)

\* an income and an expense row of positive amount
PlainRows ==
    { Row(Recent, Al, Web, Num(1500), Income),
      Row(Recent, Bo, Rent, Num(800), Expense) }

\* rows naming the client "Al" and "al"
NameRows ==
    { Row(Recent, Al, Web, Num(1500), Income),
      Row(Recent, <<"a", "l">>, Rent, Num(800), Expense) }

InitNames ==
    /\ db = EmptyStore
    /\ sess = [p \in AllProcs |-> ClosedSession]
    /\ pc = [p \in AllProcs |-> "idle"]
    /\ call = [p \in AllProcs |-> NoCall]
    /\ today = <<2026, 3, 10>>
    /\ procs = {1}
    /\ seen = {}
    /\ rowsUsed = 0
    /\ rows = NameRows
    /\ sig = <<>>
    /\ retry = <<>>

SpecNames == InitNames /\ [][Next]_vars

-----------------------------------------------------------------------------
(* The store fails while a batch is saved *)

\* session.flush() of a record raises because the connection to the store is
\* lost: "except Exception: continue" skips the record, the transaction is gone
\* and the session raises on every later use
FlushFails(p) ==
    /\ pc[p] = "rows"
    /\ sess[p].state = "active"
    /\ sess' = [sess EXCEPT ![p] = [state |-> "failed", tx |-> EmptyStore, pending |-> {}]]
    /\ call' = [call EXCEPT ![p].idx = @ + 1,
                            ![p].counted = Append(@, FALSE)]
    /\ pc' = [pc EXCEPT ![p] = IF call[p].idx = Len(call[p].new) THEN "commit" ELSE "rows"]
    /\ UNCHANGED <<db, today, procs, seen, rowsUsed, rows, sig, retry>>

\* CommitFails without the rollback: what was flushed stays in the store
CommitFails_NoRollback(p) ==
    /\ pc[p] = "commit"
    /\ sess' = [sess EXCEPT ![p] = ClosedSession]
    /\ call' = [call EXCEPT ![p].committed = FALSE, ![p].posted = {}]
    /\ pc' = [pc EXCEPT ![p] = "done"]
    /\ db' = Merge(db, sess[p].tx)
    /\ UNCHANGED <<today, procs, seen, rowsUsed, rows, sig, retry>>

\* session.commit() of session_scope raises: rollback, the exception is logged
\* by save_transactions_to_database and saved_count is returned
CommitFails(p) ==
    /\ pc[p] = "commit"
    /\ sess' = [sess EXCEPT ![p] = ClosedSession]
    /\ call' = [call EXCEPT ![p].committed = FALSE, ![p].posted = {}]
    /\ pc' = [pc EXCEPT ![p] = "done"]
    /\ UNCHANGED <<db, today, procs, seen, rowsUsed, rows, sig, retry>>

InitFaults ==
    /\ db = EmptyStore
    /\ sess = [p \in AllProcs |-> ClosedSession]
    /\ pc = [p \in AllProcs |-> "idle"]
    /\ call = [p \in AllProcs |-> NoCall]
    /\ today = <<2026, 3, 10>>
    /\ procs = {1}
    /\ seen = {}
    /\ rowsUsed = 0
    /\ rows = PlainRows
    /\ sig = <<>>
    /\ retry = <<>>

NextFaults ==
    \E p \in procs :
        \/ Upload(p)
        \/ SaveBegin(p)
        \/ SaveRecord(p)
        \/ FlushFails(p)
        \/ SaveCommit(p)
        \/ CommitFails(p)
        \/ Return(p)

SpecFaults == InitFaults /\ [][NextFaults]_vars

-----------------------------------------------------------------------------
(* Two upload cycles at the same time *)

\* The transaction the INSERT of an account waited for has ended.  When it
\* committed the account, flush raises IntegrityError, which leaves
\* save_transactions_to_database through session_scope (rollback) and its
\* outer "except": saved_count = 0 is returned.  When it rolled back, the
\* accounts are inserted.
SaveUnblock(p) ==
    /\ pc[p] = "wait"
    /\ UncommittedAccounts(p, call[p].business_id) = {}
    /\ LET r == get_or_create_default_accounts(EmptyStore, call[p].business_id, FreshId)
           taken == \E a \in db.accounts : a.business_id = call[p].business_id
       IN  /\ sess' = [sess EXCEPT ![p] =
                  IF taken THEN ClosedSession
                  ELSE [state |-> "active",
                        tx |-> [EmptyStore EXCEPT !.accounts = r.created],
                        pending |-> {}]]
           /\ call' = [call EXCEPT ![p].accounts = IF taken THEN <<>> ELSE r.accounts]
           /\ pc' = [pc EXCEPT ![p] = IF taken THEN "done" ELSE "rows"]
    /\ UNCHANGED <<db, today, procs, seen, rowsUsed, rows, sig, retry>>

InitRace ==
    /\ db = EmptyStore
    /\ sess = [p \in AllProcs |-> ClosedSession]
    /\ pc = [p \in AllProcs |-> "idle"]
    /\ call = [p \in AllProcs |-> NoCall]
    /\ today = <<2026, 3, 10>>
    /\ procs = AllProcs
    /\ seen = {}
    /\ rowsUsed = 0
    /\ rows = PlainRows
    /\ sig = <<>>
    /\ retry = <<>>

NextRace ==
    \E p \in procs :
        \/ Upload(p)
        \/ SaveBegin(p)
        \/ SaveUnblock(p)
        \/ SaveRecord(p)
        \/ SaveCommit(p)
        \/ Return(p)

SpecRace == InitRace /\ [][NextRace]_vars

-----------------------------------------------------------------------------
(* create_transaction_signature on pairs of records *)

SigClients ==
    { Al, <<"a", "l">>, <<"A", " ", "l">>, <<"A", "\t", "l">>, <<" ", "A", "l", "\t">> }

SigDescriptions ==
    { Web, <<"W", "e", "B">>, <<"W", " ", "e", "b">>, Rent }

SigAmounts ==
    { Num(150000), Whole(150000), Num(80000), Num(0), NoAmount, NotANumber }

SigTypes == { Income, <<" ">> \o Income, Expense }

SigRows ==
    { Row(date, client, description, amount, type) :
        date \in {Recent, Old}, client \in SigClients,
        description \in SigDescriptions, amount \in SigAmounts, type \in SigTypes }

SigBase ==
    { Row(Recent, Al, Web, Num(150000), Income),
      Row(Recent, Al, Web, Num(0), Income) }

\* a call of create_transaction_signature: the digest, or that it raised
Signed(row) ==
    IF SignatureRaises(row) THEN [raised |-> TRUE, signature |-> <<>>]
    ELSE [raised |-> FALSE, signature |-> create_transaction_signature(row)]

InitSig ==
    /\ db = EmptyStore
    /\ sess = [p \in AllProcs |-> ClosedSession]
    /\ pc = [p \in AllProcs |-> "idle"]
    /\ call = [p \in AllProcs |-> NoCall]
    /\ today = <<2026, 3, 10>>
    /\ procs = {}
    /\ seen = {}
    /\ rowsUsed = 0
    /\ rows = {}
    /\ \E first \in SigBase, second \in SigRows :
          sig = [first |-> first, second |-> second, out |-> <<>>]
    /\ retry = <<>>

\* signatures = [create_transaction_signature(t) for t in (first, second)]
Sign ==
    /\ sig.out = <<>>
    /\ sig' = [sig EXCEPT !.out = <<Signed(sig.first), Signed(sig.second)>>]
    /\ UNCHANGED <<db, sess, pc, call, today, procs, seen, rowsUsed, rows, retry>>

NextSig == Sign

SpecSig == InitSig /\ [][NextSig]_vars

-----------------------------------------------------------------------------
TypeOK ==
    /\ pc \in [AllProcs -> {"idle", "save", "wait", "rows", "commit", "done"}]
    /\ rowsUsed \in 0..MaxRows
    /\ \A p \in AllProcs : sess[p].state \in {"closed", "active", "failed"}

-----------------------------------------------------------------------------
(* Properties *)

RECURSIVE SumDebit(_)
SumDebit(ls) ==
    IF ls = {} THEN 0
    ELSE LET l == CHOOSE x \in ls : TRUE IN l.debit_amount + SumDebit(ls \ {l})

RECURSIVE SumCredit(_)
SumCredit(ls) ==
    IF ls = {} THEN 0
    ELSE LET l == CHOOSE x \in ls : TRUE IN l.credit_amount + SumCredit(ls \ {l})

\* the stores an entry can be read from: the committed one, and what each open
\* session has written or added
Ledgers ==
    {db} \cup {[Merge(db, sess[p].tx) EXCEPT !.lines = @ \cup sess[p].pending] : p \in procs}

\* the cycle of p has returned and neither the filter nor the save was cut short
Completed(p) ==
    /\ pc[p] = "done"
    /\ ~call[p].failed
    /\ call[p].new = <<>> \/ call[p].committed

\* the entries the finished call of p committed
PostedBy(p) == {e \in db.entries : e.id \in call[p].posted}

\* the committed entry made for row i of the frame given to save_transactions_to_database
EntryOfRow(p, i) == {e \in PostedBy(p) : e.src.idx = i}

\* a row validate_ledger accepts and whose amount is positive
ValidRow(row) == validate_data_types(row) /\ row.amount.v > 0

\* C1: once the cycle for a batch B of validated rows has completed, submitting
\* B again returns no new row and a duplicate count of len(B).
C1_DedupIdempotence ==
    \A p \in procs :
        (Completed(p) /\ \A i \in DOMAIN call[p].df : validate_data_types(call[p].df[i]))
        => \A asc \in BOOLEAN :
              LET again == filter_duplicate_transactions(
                               db, call[p].business_id, call[p].df, today, asc, "none")
              IN  again.new = <<>> /\ again.dups = Len(call[p].df)

\* C2: after an upload cycle whose filter did not fail, no entry it posted
\* shares its transaction signature with another entry of the same business.
C2_OneEntryPerSignature ==
    \A p \in procs :
        Completed(p) =>
            \A e1 \in PostedBy(p) : \A e2 \in db.entries :
                (/\ e1 # e2
                 /\ e1.business_id = e2.business_id
                 /\ ValidRow(e1.src.row)
                 /\ ValidRow(e2.src.row))
                => create_transaction_signature(e1.src.row)
                       # create_transaction_signature(e2.src.row)

\* C3: every committed journal entry has its line 1 and its line 2.
C3_NoPartialPosting ==
    \A e \in db.entries : {l.line_number : l \in LinesOf(db, e)} = {1, 2}

\* C4: in every ledger state, the debit amounts of the lines of a journal entry
\* add up to the credit amounts of its lines.
C4_Balanced ==
    \A store \in Ledgers : \A e \in store.entries :
        SumDebit(LinesOf(store, e)) = SumCredit(LinesOf(store, e))

C4_Witness ==
    \E e \in db.entries :
        /\ Cardinality(LinesOf(db, e)) = 2
        /\ SumDebit(LinesOf(db, e)) > 0

\* the line of entry e numbered n debits (credits) amount on the account of the
\* entry's business with the given code, for a client of that name, with the
\* row's description
IsLine(store, e, n, code, debit, credit) ==
    \E l \in LinesOf(store, e) :
        /\ l.line_number = n
        /\ l.debit_amount = debit
        /\ l.credit_amount = credit
        /\ l.description = Str(e.src.row.description)
        /\ \E a \in store.accounts :
              a.id = l.account_id /\ a.business_id = e.business_id /\ a.account_code = code
        /\ \E c \in store.clients :
              /\ c.id = l.client_id
              /\ c.business_id = e.business_id
              /\ c.client_name = Str(e.src.row.client)
        /\ \A k \in LinesOf(store, e) : k.client_id = l.client_id

\* C5: a posted income row of amount A has line 1 = debit A on Bank (1000) and
\* line 2 = credit A on Revenue (4000); a posted expense row has line 1 = debit A
\* on Expenses (5000) and line 2 = credit A on Bank; both lines name the row's
\* client and carry its description.
C5_PostingRule ==
    \A e \in db.entries :
        LET A == e.src.row.amount.v
            kind == Lower(Str(e.src.row.type))
        IN  LinesOf(db, e) # {} =>
               /\ Cardinality(LinesOf(db, e)) = 2
               /\ kind = Income =>
                      /\ IsLine(db, e, 1, "1000", A, 0)
                      /\ IsLine(db, e, 2, "4000", 0, A)
               /\ kind = Expense =>
                      /\ IsLine(db, e, 1, "5000", A, 0)
                      /\ IsLine(db, e, 2, "1000", 0, A)

C5_Witness ==
    /\ \E e \in db.entries :
          /\ e.src.row.type = Income /\ e.src.row.amount.v > 0 /\ LinesOf(db, e) # {}
    /\ \E e \in db.entries :
          /\ e.src.row.type = Expense /\ e.src.row.amount.v > 0 /\ LinesOf(db, e) # {}

\* C6: a call of filter_duplicate_transactions in which something raised has
\* returned to main() with every input row, in input order, as new and with a
\* duplicate count of 0.
C6_FailOpen ==
    \A p \in procs :
        call[p].failed =>
            /\ pc[p] \in {"save", "rows", "commit", "done"}
            /\ call[p].new = call[p].df
            /\ call[p].dups = 0

\* the filter failed on a batch of which it would have reported a duplicate
C6_Witness ==
    \E p \in procs :
        /\ pc[p] = "save"
        /\ call[p].failed
        /\ \A i \in DOMAIN call[p].df : ~SignatureRaises(call[p].df[i])
        /\ filter_duplicate_transactions(
               db, call[p].business_id, call[p].df, today, TRUE, "none").dups > 0

\* row is a duplicate for business_id: some entry of that business dated inside
\* the lookback window reconstructs to the row's signature
MatchesExisting(business_id, row, asc) ==
    \E e \in db.entries :
        /\ e.business_id = business_id
        /\ DateGE(e.entry_date, SixMonthsAgo(today))
        /\ ReconstructedSignature(db, e, asc) = create_transaction_signature(row)

RECURSIVE NewRows(_, _, _)
NewRows(business_id, df, asc) ==
    IF df = <<>> THEN <<>>
    ELSE IF MatchesExisting(business_id, Head(df), asc)
         THEN NewRows(business_id, Tail(df), asc)
         ELSE <<Head(df)>> \o NewRows(business_id, Tail(df), asc)

\* the filter of p has returned and the store is as the filter read it
JustFiltered(p) ==
    /\ pc[p] = "save" \/ (pc[p] = "done" /\ call[p].new = <<>>)
    /\ ~call[p].failed

InvalidAmount(row) == row.amount.t = "str" \/ row.amount.v <= 0

\* C8: a row whose amount is non-positive or non-numeric is not counted as
\* saved and no journal entry and no line is posted for it.
C8_InvalidAmountRejected ==
    \A p \in procs :
        pc[p] = "done" =>
            \A i \in DOMAIN call[p].counted :
                InvalidAmount(call[p].new[i]) =>
                    /\ ~call[p].counted[i]
                    /\ EntryOfRow(p, i) = {}

\* C9: a row whose type is neither income nor expense is not counted as saved
\* and no journal entry is posted for it.
C9_UnknownKindRejected ==
    \A p \in procs :
        Completed(p) =>
            \A i \in DOMAIN call[p].counted :
                Lower(Str(call[p].new[i].type)) \notin VALID_TYPES =>
                    /\ ~call[p].counted[i]
                    /\ EntryOfRow(p, i) = {}

\* the row cannot be posted: its amount does not convert, or the store
\* rejects its lines
FailsAlone(row) == DecimalRaises(row.amount) \/ row.amount.v < 0

\* C10: when a row of a batch fails, every later valid row of the batch is
\* committed with both its lines.
C10_BatchContinues ==
    \A p \in procs :
        (pc[p] = "done" /\ ~call[p].failed) =>
            \A i, j \in DOMAIN call[p].counted :
                (/\ i < j
                 /\ FailsAlone(call[p].new[i])
                 /\ ValidRow(call[p].new[j]))
                => \E e \in EntryOfRow(p, j) : Cardinality(LinesOf(db, e)) = 2

\* C11: after save_transactions_to_database has returned, every record of the
\* batch that was posted (counted as saved) has its journal entry in the
\* ledger, also when the store failed later in the batch or at the final commit.
C11_EarlierEntriesKept ==
    \A p \in procs :
        (pc[p] = "done" /\ ~call[p].failed) =>
            \A i \in DOMAIN call[p].counted :
                call[p].counted[i] =>
                    \E e \in db.entries :
                        /\ e.business_id = call[p].business_id
                        /\ e.src.row = call[p].new[i]

\* C12: the count save_transactions_to_database returns is the number of
\* journal entries the call committed.
C12_SavedCountTruthful ==
    \A p \in procs :
        (pc[p] = "done" /\ ~call[p].failed /\ call[p].new # <<>>) =>
            call[p].saved_count = Cardinality(PostedBy(p))

\* the accounts of business b a store holds
AccountsOf(store, b) == {a \in store.accounts : a.business_id = b}

\* a business has no account, or exactly the four system accounts, one per code
FourAccounts(store) ==
    \A b \in Businesses :
        AccountsOf(store, b) # {} =>
            /\ Cardinality(AccountsOf(store, b)) = 4
            /\ {a.account_code : a \in AccountsOf(store, b)} = {"1000", "4000", "5000", "1200"}
            /\ \A a \in AccountsOf(store, b) : a.is_system_account

\* C13: get_or_create_default_accounts, called once per save for a business any
\* number of times in sequence, leaves the business with exactly the four system
\* accounts 1000, 4000, 5000 and 1200, one per (business_id, account_code), and
\* no step changes or removes a committed account.
C13_ProvisioningIdempotent ==
    [][/\ \A a \in db.accounts : a \in db'.accounts
       /\ FourAccounts(db')
       /\ \A p \in procs :
             /\ FourAccounts(View(db', sess'[p]))
             /\ (pc'[p] = "rows" /\ sess'[p].state = "active") =>
                    Cardinality(AccountsOf(View(db', sess'[p]), call'[p].business_id)) = 4
             /\ (pc[p] = "rows" /\ sess[p].state = "active"
                    /\ pc'[p] \in {"rows", "commit"} /\ sess'[p].state = "active") =>
                    AccountsOf(View(db', sess'[p]), call[p].business_id)
                        = AccountsOf(View(db, sess[p]), call[p].business_id)]_vars

\* a later save for a business found all four accounts and created none
C13_Witness ==
    \E p \in procs :
        /\ pc[p] = "rows"
        /\ sess[p].state = "active"
        /\ sess[p].tx.accounts = {}
        /\ Cardinality(AccountsOf(db, call[p].business_id)) = 4
        /\ \E e \in db.entries : e.business_id = call[p].business_id

NotWhite(c) == ~IsWhite(c)

\* a text without its whitespace and in lower case: two texts that differ only
\* in letter case or whitespace have the same Canon
Canon(text) == SelectSeq(Lower(text), NotWhite)

\* the client row is named by a journal line
Referenced(store, c) == \E l \in store.lines : l.client_id = c.id

\* C14: the committed ledger holds one active Client row per business and
\* case/whitespace-normalized name among the clients journal lines refer to.
C14_OnePartyPerName ==
    \A c1, c2 \in db.clients :
        (/\ c1.business_id = c2.business_id
         /\ c1.is_active /\ c2.is_active
         /\ Referenced(db, c1) /\ Referenced(db, c2)
         /\ Canon(c1.client_name) = Canon(c2.client_name))
        => c1 = c2

\* C15: when upload cycles run at the same time, the committed ledger holds at
\* most one active Client row per business and name, and no save that resolved
\* a client was cut short.
C15_ResolverRaceFree ==
    /\ \A c1, c2 \in db.clients :
          (/\ c1.business_id = c2.business_id
           /\ c1.is_active /\ c2.is_active
           /\ c1.client_name = c2.client_name)
          => c1 = c2
    /\ \A p \in procs :
          (pc[p] = "done" /\ call[p].counted # <<>>) => call[p].committed

\* both records of sig have been given to create_transaction_signature
BothSigned == sig.out # <<>>

\* the amount cell holds a number
Numeric(amount) == amount.t \in {"num", "int"}

\* C16: two records that differ only in the letter case or the whitespace of
\* client and description, with numerically equal amounts, get the same
\* signature.
C16_NormalizationInvariance ==
    (/\ BothSigned
     /\ sig.first.date = sig.second.date
     /\ sig.first.type = sig.second.type
     /\ Canon(sig.first.client) = Canon(sig.second.client)
     /\ Canon(sig.first.description) = Canon(sig.second.description)
     /\ Numeric(sig.first.amount) /\ Numeric(sig.second.amount)
     /\ sig.first.amount.v = sig.second.amount.v)
    => /\ ~sig.out[1].raised /\ ~sig.out[2].raised
       /\ sig.out[1].signature = sig.out[2].signature

\* the number of fields among date, amount, description and type in which two
\* records differ
Changed(r1, r2) ==
    {f \in {"date", "amount", "description", "type"} : r1[f] # r2[f]}

\* the text create_transaction_signature puts into signature_data for a field
NormalizedField(row, f) ==
    IF f = "date" THEN DateText(row.date)
    ELSE IF f = "amount" THEN (IF row.amount.t # "nan" THEN Fmt2(row.amount.v) ELSE 0)
    ELSE IF f = "description" THEN Normalize(Str(row.description))
    ELSE Strip(Lower(Str(row.type)))

\* C17 as stated: changing one of date, amount, description or type to a
\* different value, the other fields kept, changes the signature.
C17_AnyChangeChanges ==
    (/\ BothSigned
     /\ ~sig.out[1].raised /\ ~sig.out[2].raised
     /\ sig.first.client = sig.second.client
     /\ Cardinality(Changed(sig.first, sig.second)) = 1)
    => sig.out[1].signature # sig.out[2].signature

\* C17: changing one of date, amount, description or type, the other fields
\* kept, to a value whose normalized form differs (the first ten characters of
\* the date, the amount with two decimals and a missing amount as 0.00, the
\* description in lower case without spaces and stripped, the type in lower
\* case and stripped) changes the signature.
C17_Discrimination ==
    (/\ BothSigned
     /\ ~sig.out[1].raised /\ ~sig.out[2].raised
     /\ sig.first.client = sig.second.client
     /\ Cardinality(Changed(sig.first, sig.second)) = 1
     /\ \A f \in Changed(sig.first, sig.second) :
            NormalizedField(sig.first, f) # NormalizedField(sig.second, f))
    => sig.out[1].signature # sig.out[2].signature

\* the two records differ in their type only: income and expense
C17_Witness ==
    /\ BothSigned
    /\ ~sig.out[1].raised /\ ~sig.out[2].raised
    /\ sig.first.client = sig.second.client
    /\ Changed(sig.first, sig.second) = {"type"}
    /\ sig.first.type = Income /\ sig.second.type = Expense
    /\ sig.out[1].signature # sig.out[2].signature

\* C18: a record whose amount is missing or is no number gets, without an
\* exception, the signature of the same record with amount 0.00.
C18_BadAmountIsZero ==
    BothSigned =>
        \A k \in {1, 2} :
            LET row == IF k = 1 THEN sig.first ELSE sig.second
            IN  ~Numeric(row.amount) =>
                   /\ ~sig.out[k].raised
                   /\ sig.out[k].signature
                          = create_transaction_signature([row EXCEPT !.amount = Num(0)])

\* C19: no step of the upload cycle (filtering, provisioning, client
\* resolution, posting, commit or rollback) removes or changes a committed
\* journal entry or changes the set of its lines.
C19_AppendOnly ==
    [][\A e \in db.entries :
          /\ e \in db'.entries
          /\ LinesOf(db', e) = LinesOf(db, e)]_vars

\* a batch was committed into a ledger that already held a posted entry
C19_Witness ==
    \E p \in procs :
        /\ pc[p] = "done"
        /\ call[p].posted # {}
        /\ \E e \in db.entries :
              e.id \notin call[p].posted /\ e.is_posted /\ LinesOf(db, e) # {}

\* the rows of a store that belong to business b
OfBusiness(store, b) ==
    [accounts |-> {a \in store.accounts : a.business_id = b},
     clients |-> {c \in store.clients : c.business_id = b},
     entries |-> {e \in store.entries : e.business_id = b},
     lines |-> {l \in store.lines :
                  \E e \in store.entries : e.id = l.journal_entry_id /\ e.business_id = b}]

\* C20: what filter_duplicate_transactions returns for business A is what it
\* returns, for an order of visiting the lines of an entry, on the store
\* without the rows of every other business, and no step
\* of a save for business A changes the accounts, clients, entries or lines of
\* another business.
C20_BusinessIsolation ==
    [][\A p \in procs :
          /\ (pc[p] = "idle" /\ pc'[p] # "idle" /\ ~call'[p].failed) =>
                 \E asc \in BOOLEAN :
                     LET A == call'[p].business_id
                         alone == filter_duplicate_transactions(
                                      OfBusiness(db, A), A, call'[p].df, today, asc, "none")
                     IN  call'[p].new = alone.new /\ call'[p].dups = alone.dups
          /\ pc[p] \in {"save", "wait", "rows", "commit"} =>
                 \A B \in Businesses \ {call[p].business_id} :
                     /\ OfBusiness(db', B) = OfBusiness(db, B)
                     /\ OfBusiness([sess'[p].tx EXCEPT !.lines = @ \cup sess'[p].pending], B)
                            = EmptyStore]_vars

\* a record is new for one business although another business holds a posted
\* entry for the very same record
C20_Witness ==
    \E p \in procs :
        /\ pc[p] = "save"
        /\ ~call[p].failed
        /\ \E e \in db.entries :
              /\ e.business_id # call[p].business_id
              /\ e.src.row = call[p].new[1]
              /\ ValidRow(e.src.row)
              /\ DateGE(e.entry_date, SixMonthsAgo(today))
              /\ Cardinality(LinesOf(db, e)) = 2

-----------------------------------------------------------------------------
(* GST classification *)

\* keyword in desc
Contains(desc, keyword) ==
    \E i \in 0..(Len(desc) - Len(keyword)) :
        SubSeq(desc, i + 1, i + Len(keyword)) = keyword

\* classify_gst(description), for descriptions that hold none of the keywords
\* tested before "rent": the rent rule and the default
classify_gst(description) ==
    LET desc == Strip(Lower(description))
    IN  IF description = EmptyStr
        THEN "Review Required - Manual Classification Needed"
        ELSE IF Contains(desc, <<"r", "e", "n", "t">>)
        THEN "ITC Eligible - Rent (Commercial)"
        ELSE "Review Required - Manual Classification Needed"

\* C21: both lines of the committed journal entry of an expense record carry,
\* as gst_category, the category classify_gst gives the record's description.
C21_GstTagVerbatim ==
    \A e \in db.entries :
        (Lower(Str(e.src.row.type)) = Expense /\ ValidRow(e.src.row)) =>
            \A l \in LinesOf(db, e) :
                l.gst_category = classify_gst(Str(e.src.row.description))

\* an upload draws from a valid row, a row of negative amount and a row of
\* amount zero
SignedRows ==
    { Row(Recent, Al, Web, Num(1500), Income),
      Row(Recent, Bo, Rent, Num(-500), Expense),
      Row(Recent, Al, Web, Num(0), Income) }

InitSigned ==
    /\ db = EmptyStore
    /\ sess = [p \in AllProcs |-> ClosedSession]
    /\ pc = [p \in AllProcs |-> "idle"]
    /\ call = [p \in AllProcs |-> NoCall]
    /\ today = <<2026, 3, 10>>
    /\ procs = {1}
    /\ seen = {}
    /\ rowsUsed = 0
    /\ rows = SignedRows
    /\ sig = <<>>
    /\ retry = <<>>

SpecSigned == InitSigned /\ [][Next]_vars

\* C22: every line the store holds, committed or written by an open
\* transaction, has a debit and a credit that are not negative and not both
\* positive.
C22_SingleSided ==
    \A store \in {db} \cup {View(db, sess[p]) : p \in procs} :
        \A l \in store.lines :
            /\ l.debit_amount >= 0
            /\ l.credit_amount >= 0
            /\ ~(l.debit_amount > 0 /\ l.credit_amount > 0)

\* the store has rejected the lines of a record of negative amount: the save
\* of a batch holding one was rolled back, and the ledger holds lines
C22_Witness ==
    \E p \in procs :
        /\ pc[p] = "done"
        /\ ~call[p].committed
        /\ \E i \in DOMAIN call[p].counted :
              call[p].counted[i] /\ call[p].new[i].amount.v < 0
        /\ db.lines # {}

-----------------------------------------------------------------------------
(* DineroAgent._call_with_retry *)

MAX_API_RETRIES == 3
API_RETRY_DELAY == 2

\* what self.model.generate_content(prompt) does: it returns a response with
\* text, returns a response without text, or raises
Responses ==
    { [kind |-> "text", value |-> "summary A"],
      [kind |-> "text", value |-> "summary B"],
      [kind |-> "empty", value |-> ""],
      [kind |-> "raise", value |-> "timeout"],
      [kind |-> "raise", value |-> "quota exceeded"] }

Prompts == {"executive summary", "recommendations"}

\* sleep after every failed attempt
SleepsAfter_Every(attempt) == TRUE

\* "if attempt < MAX_API_RETRIES - 1": a failed attempt is followed by a sleep
SleepsAfter(attempt) == attempt < MAX_API_RETRIES - 1

InitRetry ==
    /\ db = EmptyStore
    /\ sess = [p \in AllProcs |-> ClosedSession]
    /\ pc = [p \in AllProcs |-> "idle"]
    /\ call = [p \in AllProcs |-> NoCall]
    /\ today = <<2026, 3, 10>>
    /\ procs = {}
    /\ seen = {}
    /\ rowsUsed = 0
    /\ rows = {}
    /\ sig = <<>>
    /\ \E prompt \in Prompts :
          retry = [prompt |-> prompt, attempt |-> 0, at |-> "loop", calls |-> <<>>,
                   slept |-> <<>>, last_error |-> "", result |-> ""]

\* one pass of "for attempt in range(MAX_API_RETRIES)" up to the sleep
Attempt ==
    /\ retry.at = "loop"
    /\ retry.attempt < MAX_API_RETRIES
    /\ \E response \in Responses :
          retry' =
              IF response.kind = "text"
              THEN [retry EXCEPT !.calls = Append(@, response),
                                 !.at = "returned",
                                 !.result = response.value]
              ELSE [retry EXCEPT !.calls = Append(@, response),
                                 !.last_error = IF response.kind = "empty"
                                                THEN "Empty response from AI model"
                                                ELSE response.value,
                                 !.at = IF SleepsAfter(retry.attempt) THEN "sleep" ELSE "loop",
                                 !.attempt = IF SleepsAfter(retry.attempt) THEN @ ELSE @ + 1]
    /\ UNCHANGED <<db, sess, pc, call, today, procs, seen, rowsUsed, rows, sig>>

\* time.sleep(API_RETRY_DELAY * (attempt + 1)) has returned
Sleep ==
    /\ retry.at = "sleep"
    /\ retry' = [retry EXCEPT !.slept = Append(@, API_RETRY_DELAY * (retry.attempt + 1)),
                              !.attempt = @ + 1,
                              !.at = "loop"]
    /\ UNCHANGED <<db, sess, pc, call, today, procs, seen, rowsUsed, rows, sig>>

\* the loop has ended: raise AIAgentError
GiveUp ==
    /\ retry.at = "loop"
    /\ retry.attempt >= MAX_API_RETRIES
    /\ retry' = [retry EXCEPT !.at = "raised", !.result = "AIAgentError"]
    /\ UNCHANGED <<db, sess, pc, call, today, procs, seen, rowsUsed, rows, sig>>

NextRetry == Attempt \/ Sleep \/ GiveUp

\* the model answers or raises, and a sleep ends
SpecRetry == InitRetry /\ [][NextRetry]_vars /\ WF_vars(NextRetry)

\* the calls of the model that gave no text
FailedCalls == {i \in DOMAIN retry.calls : retry.calls[i].kind # "text"}

RetryBounded ==
    /\ Len(retry.calls) <= MAX_API_RETRIES
    /\ Len(retry.slept) < MAX_API_RETRIES
    /\ \A i \in DOMAIN retry.slept : retry.slept[i] = API_RETRY_DELAY * i
    /\ retry.at = "returned" =>
          /\ retry.calls[Len(retry.calls)].kind = "text"
          /\ retry.result = retry.calls[Len(retry.calls)].value
          /\ FailedCalls = 1..(Len(retry.calls) - 1)
          /\ Len(retry.slept) = Len(retry.calls) - 1
    /\ retry.at = "raised" =>
          /\ Len(retry.calls) = MAX_API_RETRIES
          /\ FailedCalls = 1..MAX_API_RETRIES
          /\ Len(retry.slept) = MAX_API_RETRIES - 1
    /\ retry.at \in {"loop", "sleep"} => FailedCalls = DOMAIN retry.calls

\* C23: _call_with_retry calls the model at most MAX_API_RETRIES times, returns
\* the text of the first response that has text without a further call, raises
\* AIAgentError after exactly MAX_API_RETRIES failed calls, sleeps between two
\* calls only, and it ends.
C23_RetryBounded ==
    []RetryBounded /\ <>(retry.at \in {"returned", "raised"})

\* three failed calls with two sleeps between them, then AIAgentError
C23_Witness ==
    /\ retry.at = "raised"
    /\ Len(retry.calls) = 3
    /\ retry.slept = <<2, 4>>

-----------------------------------------------------------------------------
(* Uploads of a CSV file whose dates are written DD/MM/YYYY *)

\* a date cell holding the text "DD/MM/YYYY"
Dmy(y, m, d) == [fmt |-> "dmy", y |-> y, m |-> m, d |-> d]

DateRows ==
    { Row(Dmy(2026, 1, 15), Al, Web, Num(1500), Income),
      Row(Recent, Bo, Rent, Num(800), Expense) }

InitDates ==
    /\ db = EmptyStore
    /\ sess = [p \in AllProcs |-> ClosedSession]
    /\ pc = [p \in AllProcs |-> "idle"]
    /\ call = [p \in AllProcs |-> NoCall]
    /\ today = <<2026, 3, 10>>
    /\ procs = {1}
    /\ seen = {}
    /\ rowsUsed = 0
    /\ rows = DateRows
    /\ sig = <<>>
    /\ retry = <<>>

SpecDates == InitDates /\ [][Next]_vars

\* C24: for every committed entry posted with its two lines for a valid record
\* of positive amount, the signature filter_duplicate_transactions rebuilds from
\* the entry is the signature of the record, for either order of its lines.
C24_ReconstructionInverse ==
    \A e \in db.entries :
        (ValidRow(e.src.row) /\ Cardinality(LinesOf(db, e)) = 2) =>
            \A asc \in BOOLEAN :
                ReconstructedSignature(db, e, asc) = create_transaction_signature(e.src.row)

-----------------------------------------------------------------------------
(* Uploads on different days of the year *)

\* the days datetime.now().date() is drawn from: month ends and mid-month days
\* on both sides of the year boundary of the lookback window
Todays ==
    { <<2026, 1, 15>>, <<2026, 1, 31>>, <<2026, 2, 28>>, <<2026, 3, 10>>,
      <<2026, 3, 31>>, <<2026, 5, 31>>, <<2026, 6, 30>>, <<2026, 7, 1>>,
      <<2026, 7, 31>>, <<2026, 8, 31>>, <<2026, 10, 31>>, <<2026, 12, 31>> }

WindowRows ==
    { Row(Recent, Al, Web, Num(1500), Income),
      Row(Old, Bo, Rent, Num(800), Expense) }

InitWindow ==
    /\ db = EmptyStore
    /\ sess = [p \in AllProcs |-> ClosedSession]
    /\ pc = [p \in AllProcs |-> "idle"]
    /\ call = [p \in AllProcs |-> NoCall]
    /\ today \in Todays
    /\ procs = {1}
    /\ seen = {}
    /\ rowsUsed = 0
    /\ rows = WindowRows
    /\ sig = <<>>
    /\ retry = <<>>

SpecWindow == InitWindow /\ [][Next]_vars

\* the last day of month m of year y
DaysIn(y, m) ==
    IF m = 2 THEN (IF y % 4 = 0 /\ (y % 100 # 0 \/ y % 400 = 0) THEN 29 ELSE 28)
    ELSE IF m \in {4, 6, 9, 11} THEN 30 ELSE 31

ValidDate(d) == d[2] \in 1..12 /\ d[3] \in 1..DaysIn(d[1], d[2])

\* the first day of the calendar month six months before the month of now,
\* by counting months
SixMonthsBefore(now) ==
    LET k == now[1] * 12 + (now[2] - 1) - 6
    IN  <<k \div 12, (k % 12) + 1, 1>>

\* row is kept as new by the filter of p
ReturnedNew(p, row) == \E j \in DOMAIN call[p].new : call[p].new[j] = row

\* C25: on every current date the start of the lookback window is the first day
\* of the calendar month six months before the current month, a valid date not
\* after today; and when the lookup succeeds a row of the batch is returned as
\* new exactly when no entry of the business dated on or after that start
\* reconstructs to its signature, so a row identical to an entry dated before
\* the start is returned as new.
C25_WindowStart ==
    LET start == SixMonthsBefore(today)
    IN  /\ SixMonthsAgo(today) = start
        /\ ValidDate(start)
        /\ DateGE(today, start)
        /\ \A p \in procs :
              JustFiltered(p) =>
                  \A i \in DOMAIN call[p].df :
                      ReturnedNew(p, call[p].df[i]) <=>
                          ~\E e \in db.entries :
                              /\ e.business_id = call[p].business_id
                              /\ DateGE(e.entry_date, start)
                              /\ \E asc \in BOOLEAN :
                                    ReconstructedSignature(db, e, asc)
                                        = create_transaction_signature(call[p].df[i])

\* a row identical to a committed entry dated before the window start has been
\* returned as new, on a day whose window start lies in the previous year
C25_Witness ==
    \E p \in procs :
        /\ JustFiltered(p)
        /\ today[2] <= 6
        /\ \E i \in DOMAIN call[p].df :
              /\ ReturnedNew(p, call[p].df[i])
              /\ \E e \in db.entries :
                    /\ e.business_id = call[p].business_id
                    /\ ~DateGE(e.entry_date, SixMonthsAgo(today))
                    /\ ReconstructedSignature(db, e, TRUE)
                           = create_transaction_signature(call[p].df[i])

-----------------------------------------------------------------------------
(* Order of processing *)

\* s is t with some elements left out, the others in the order they have in t
RECURSIVE Embeds(_, _)
Embeds(s, t) ==
    IF s = <<>> THEN TRUE
    ELSE IF t = <<>> THEN FALSE
    ELSE IF Head(s) = Head(t) THEN Embeds(Tail(s), Tail(t))
    ELSE Embeds(s, Tail(t))

\* the entries the running or finished save of p has created
CreatedBy(p) == sess[p].tx.entries \cup PostedBy(p)

\* the first row of the frame of p that names the client
FirstNaming(p, client_name) ==
    SetMax({0} \cup {i \in DOMAIN call[p].new :
                        /\ Str(call[p].new[i].client) = client_name
                        /\ \A j \in 1..(i - 1) : Str(call[p].new[j].client) # client_name})

\* C26: the filter returns the new rows in the order they have in the batch;
\* save handles the rows of its frame in that order: the entry made for row i
\* carries row i and is created after the entries of the rows before it, and a
\* client created for row i is created after the entries of the rows before i
\* and before the entry of row i.
C26_RowOrder ==
    \A p \in procs :
        /\ Embeds(call[p].new, call[p].df)
        /\ \A e \in CreatedBy(p) :
              /\ e.src.idx \in 1..(call[p].idx - 1)
              /\ e.src.row = call[p].new[e.src.idx]
        /\ \A e1, e2 \in CreatedBy(p) : e1.src.idx < e2.src.idx => e1.id < e2.id
        /\ \A c \in sess[p].tx.clients : \A e \in sess[p].tx.entries :
              IF e.src.idx < FirstNaming(p, c.client_name) THEN e.id < c.id ELSE c.id < e.id

\* a save has created, for a frame of two different new rows, a client and an
\* entry for each
C26_Witness ==
    \E p \in procs :
        /\ Len(call[p].new) >= 2
        /\ call[p].new[1] # call[p].new[2]
        /\ Cardinality(sess[p].tx.entries) >= 2
        /\ Cardinality(sess[p].tx.clients) >= 2

-----------------------------------------------------------------------------
(* Upload cycles running at the same time *)

\* C27: when two upload cycles for the same business have both finished with
\* a successful lookup, no entry committed by one has the transaction signature
\* of an entry committed by the other, however their steps interleaved.
C27_NoDoublePostUnderRace ==
    \A p, q \in procs :
        (/\ p # q
         /\ pc[p] = "done" /\ pc[q] = "done"
         /\ ~call[p].failed /\ ~call[q].failed
         /\ call[p].business_id = call[q].business_id)
        => \A e1 \in PostedBy(p) : \A e2 \in PostedBy(q) :
              create_transaction_signature(e1.src.row)
                  # create_transaction_signature(e2.src.row)

\* C28: when upload cycles for the same business provision its accounts at the
\* same time, the committed store never holds two accounts with the same
\* (business_id, account_code), a provisioned business holds exactly the four
\* system accounts, and every save that was given new rows by a successful
\* lookup goes on to commit its entries.
C28_ProvisioningRaceFree ==
    /\ \A a1, a2 \in db.accounts :
          (a1.business_id = a2.business_id /\ a1.account_code = a2.account_code)
          => a1 = a2
    /\ FourAccounts(db)
    /\ \A p \in procs :
          (pc[p] = "done" /\ ~call[p].failed /\ call[p].new # <<>>) =>
              /\ call[p].committed
              /\ PostedBy(p) # {}

-----------------------------------------------------------------------------
(* session_scope *)

\* every row of store a is a row of store b
Within(a, b) ==
    /\ a.accounts \subseteq b.accounts
    /\ a.clients \subseteq b.clients
    /\ a.entries \subseteq b.entries
    /\ a.lines \subseteq b.lines

-----------------------------------------------------------------------------
(* Records skipped by save_transactions_to_database *)

\* C30: after save_transactions_to_database has returned, the committed store
\* holds nothing created for a record that was skipped because its processing
\* raised: no journal entry (and so no line) made for it, and no client of its
\* name that no journal line refers to.
C30_SkippedLeavesNothing ==
    \A p \in procs :
        pc[p] = "done" =>
            \A i \in DOMAIN call[p].counted :
                ~call[p].counted[i] =>
                    /\ EntryOfRow(p, i) = {}
                    /\ \A c \in db.clients :
                          (/\ c.business_id = call[p].business_id
                           /\ c.client_name = Str(call[p].new[i].client))
                          => Referenced(db, c)

====
